---------------------------- MODULE Spec2Model ----------------------------
(***************************************************************************)
(* nfs4_acl_tools: Acl::from_path (decoding of the nfs4_getfacl listing)   *)
(* and Acl::group_id_aces, as a state machine over one decode call.        *)
(* Strings are sequences of one-character strings.                         *)
(***************************************************************************)
EXTENDS Integers, Sequences, FiniteSets, TLC

(* ------------------------------ bounds -------------------------------- *)

\* longest input, in lines, of the multi-line inputs
MaxLines == 3
\* longest flags-field / permissions-field of the enumerated fields
MaxFieldLen == 3

(* --------------------------- vocabulary ------------------------------- *)

GROUP == 1
DIRECTORY_INHERIT == 2
FILE_INHERIT == 4
NO_PROPAGATE_INHERIT == 8
INHERIT_ONLY == 16
SUCCESSFUL_ACCESS == 32
FAILED_ACCESS == 64

READ_DATA == 1
WRITE_DATA == 2
APPEND_DATA == 4
EXECUTE == 8
DELETE == 16
DELETE_CHILD == 32
READ_ATTRIBUTES == 64
WRITE_ATTRIBUTES == 128
READ_NAMED_ATTRIBUTES == 256
WRITE_NAMED_ATTRIBUTES == 512
READ_ACL == 1024
WRITE_ACL == 2048
WRITE_OWNER == 4096
SYNCHRONIZE == 8192

\* largest value of the u16 the principal is parsed into
U16Max == 65535

AceType == {"Allow", "Deny", "Audit", "Alarm"}

(* ----------------------------- helpers -------------------------------- *)

Range(s) == {s[i] : i \in DOMAIN s}

BoundedSeqs(S, n) == UNION {[1..k -> S] : k \in 0..n}

\* union written as addition
BitOrMutAdd(a, b) == a + b

RECURSIVE BitOr(_, _)
\* the | of the bit sets, on their numeric values
BitOr(a, b) ==
    IF a = 0 THEN b
    ELSE IF b = 0 THEN a
    ELSE (IF a % 2 = 1 \/ b % 2 = 1 THEN 1 ELSE 0) + 2 * BitOr(a \div 2, b \div 2)

\* contains(): every bit of b is set in a
Contains(a, b) == BitOr(a, b) = a

(* --------------------- str::lines and str::split ---------------------- *)

StripCR(s) ==
    IF Len(s) > 0 /\ s[Len(s)] = "\r" THEN SubSeq(s, 1, Len(s) - 1) ELSE s

RECURSIVE LinesFrom(_, _, _, _)
LinesFrom(s, i, cur, acc) ==
    IF i > Len(s) THEN (IF cur = <<>> THEN acc ELSE Append(acc, cur))
    ELSE IF s[i] = "\n" THEN LinesFrom(s, i + 1, <<>>, Append(acc, StripCR(cur)))
    ELSE LinesFrom(s, i + 1, Append(cur, s[i]), acc)

\* output_str.lines().collect()
Lines(s) == LinesFrom(s, 1, <<>>, <<>>)

RECURSIVE SplitFrom(_, _, _, _)
SplitFrom(s, i, cur, acc) ==
    IF i > Len(s) THEN Append(acc, cur)
    ELSE IF s[i] = ":" THEN SplitFrom(s, i + 1, <<>>, Append(acc, cur))
    ELSE SplitFrom(s, i + 1, Append(cur, s[i]), acc)

\* line.split(":").collect()
Split(line) == SplitFrom(line, 1, <<>>, <<>>)

SkipLineMutEmptyOnly(line) == line = <<>>

\* line.is_empty() || line.starts_with("#")
SkipLine(line) == line = <<>> \/ line[1] = "#"


(* ------------------------- character matches -------------------------- *)

TypeChars == {"A", "D", "U", "L"}

\* match ace_type { 'A' => .., 'D' => .., 'U' => .., 'L' => .. }
TypeOf(c) ==
    CASE c = "A" -> "Allow"
      [] c = "D" -> "Deny"
      [] c = "U" -> "Audit"
      [] c = "L" -> "Alarm"

FlagChars == {"g", "d", "f", "n", "i", "S", "F"}

FlagBitMutSwapSF(c) ==
    CASE c = "g" -> GROUP
      [] c = "d" -> DIRECTORY_INHERIT
      [] c = "f" -> FILE_INHERIT
      [] c = "n" -> NO_PROPAGATE_INHERIT
      [] c = "i" -> INHERIT_ONLY
      [] c = "S" -> FAILED_ACCESS
      [] c = "F" -> SUCCESSFUL_ACCESS

\* the arms of the flags match
FlagBit(c) ==
    CASE c = "g" -> GROUP
      [] c = "d" -> DIRECTORY_INHERIT
      [] c = "f" -> FILE_INHERIT
      [] c = "n" -> NO_PROPAGATE_INHERIT
      [] c = "i" -> INHERIT_ONLY
      [] c = "S" -> SUCCESSFUL_ACCESS
      [] c = "F" -> FAILED_ACCESS

PermissionChars ==
    {"r", "w", "a", "x", "d", "D", "t", "T", "n", "N", "c", "C", "o", "y"}

\* the arms of the permissions match
PermissionBit(c) ==
    CASE c = "r" -> READ_DATA
      [] c = "w" -> WRITE_DATA
      [] c = "a" -> APPEND_DATA
      [] c = "x" -> EXECUTE
      [] c = "d" -> DELETE
      [] c = "D" -> DELETE_CHILD
      [] c = "t" -> READ_ATTRIBUTES
      [] c = "T" -> WRITE_ATTRIBUTES
      [] c = "n" -> READ_NAMED_ATTRIBUTES
      [] c = "N" -> WRITE_NAMED_ATTRIBUTES
      [] c = "c" -> READ_ACL
      [] c = "C" -> WRITE_ACL
      [] c = "o" -> WRITE_OWNER
      [] c = "y" -> SYNCHRONIZE

\* one println! of the decoder
Diag(msg, arg) == [msg |-> msg, arg |-> arg]

RECURSIVE FlagsLoopMutContinue(_, _, _)
\* the unrecognized character is reported and the loop goes on
FlagsLoopMutContinue(chars, i, flags) ==
    IF i > Len(chars) THEN [value |-> flags, printed |-> <<>>]
    ELSE IF chars[i] \in FlagChars
         THEN FlagsLoopMutContinue(chars, i + 1, BitOr(flags, FlagBit(chars[i])))
         ELSE LET rest == FlagsLoopMutContinue(chars, i + 1, flags)
              IN  [value |-> rest.value,
                   printed |-> <<Diag("Invalid flag", <<chars[i]>>)>> \o rest.printed]

RECURSIVE FlagsLoop(_, _, _)
\* for char in ace_flags.chars() { match char { .. _ => { println!; break } } }
FlagsLoop(chars, i, flags) ==
    IF i > Len(chars) THEN [value |-> flags, printed |-> <<>>]
    ELSE IF chars[i] \in FlagChars
         THEN FlagsLoop(chars, i + 1, BitOr(flags, FlagBit(chars[i])))
         ELSE [value |-> flags, printed |-> <<Diag("Invalid flag", <<chars[i]>>)>>]

RECURSIVE PermissionsLoop(_, _, _)
\* for char in ace_permissions.chars() { match char { .. _ => { println!; break } } }
PermissionsLoop(chars, i, permissions) ==
    IF i > Len(chars) THEN [value |-> permissions, printed |-> <<>>]
    ELSE IF chars[i] \in PermissionChars
         THEN PermissionsLoop(chars, i + 1, BitOr(permissions, PermissionBit(chars[i])))
         ELSE [value |-> permissions,
               printed |-> <<Diag("Invalid permission", <<chars[i]>>)>>]

(* --------------------------- one entry line ---------------------------- *)

\* parts[0].to_string().chars().last().unwrap(), on a non-empty field
TypeCharOf(field) == field[Len(field)]

\* The body of the line loop after the skip test: what it prints, and whether
\* it pushes an Ace or panics (and at which expression).
LineBody(line) ==
    LET parts == Split(line)
        invalid == IF Len(parts) # 4 THEN <<Diag("Invalid line", line)>> ELSE <<>>
    IN  IF parts[1] = <<>>
        THEN [kind |-> "panic", why |-> "unwrap on None", printed |-> invalid]
        ELSE IF Len(parts) < 4
        THEN [kind |-> "panic", why |-> "index out of bounds", printed |-> invalid]
        ELSE IF TypeCharOf(parts[1]) \notin TypeChars
        THEN [kind |-> "panic", why |-> "unreachable", printed |-> invalid]
        ELSE LET f == FlagsLoop(parts[2], 1, 0)
                 p == PermissionsLoop(parts[4], 1, 0)
             IN  [kind |-> "ace",
                  ace |-> [ace_type |-> TypeOf(TypeCharOf(parts[1])),
                           ace_flags |-> f.value,
                           ace_principals |-> parts[3],
                           ace_permissions |-> p.value],
                  printed |-> invalid \o f.printed \o p.printed]

PushMutFront(v, ace) == <<ace>> \o v

\* aces.push(ace)
Push(v, ace) == Append(v, ace)

(* ------------------------- principal as u16 ---------------------------- *)

Digits == <<"0", "1", "2", "3", "4", "5", "6", "7", "8", "9">>

DigitVal(c) == (CHOOSE k \in DOMAIN Digits : Digits[k] = c) - 1

RECURSIVE ParseDigits(_, _, _)
\* checked_mul(10) then checked_add(digit), an error on a non-digit or overflow
ParseDigits(s, i, acc) ==
    IF i > Len(s) THEN TRUE
    ELSE IF s[i] \notin Range(Digits) THEN FALSE
    ELSE IF acc * 10 + DigitVal(s[i]) > U16Max THEN FALSE
    ELSE ParseDigits(s, i + 1, acc * 10 + DigitVal(s[i]))

\* s.parse::<u16>().is_ok()
ParseU16Ok(s) ==
    IF s = <<>> THEN FALSE
    ELSE IF s = <<"+">> \/ s = <<"-">> THEN FALSE
    ELSE IF s[1] = "+" THEN ParseDigits(Tail(s), 1, 0)
    ELSE ParseDigits(s, 1, 0)

\* the closure of the filter in group_id_aces
IsGroupIdAce(ace) ==
    ParseU16Ok(ace.ace_principals) /\ Contains(ace.ace_flags, GROUP)

(* ------------------------------ inputs --------------------------------- *)

Join4(a, b, c, d) == a \o <<":">> \o b \o <<":">> \o c \o <<":">> \o d

Owner == <<"O", "W", "N", "E", "R", "@">>
Alice == <<"a", "l", "i", "c", "e">>
Gid1234 == <<"1", "2", "3", "4">>
Gid65535 == <<"6", "5", "5", "3", "5">>
Gid65536 == <<"6", "5", "5", "3", "6">>
Gid70000 == <<"7", "0", "0", "0", "0">>

AllFlags == <<"g", "d", "f", "n", "i", "S", "F">>
AllPermissions ==
    <<"r", "w", "a", "x", "d", "D", "t", "T", "n", "N", "c", "C", "o", "y">>

TypeFields ==
    {<<"A">>, <<"D">>, <<"U">>, <<"L">>, <<"x", "D">>,
     <<"X">>, <<"a">>, <<"A", "X">>, <<>>}

\* "r" is no flag letter and "g" no permission letter; "d" is both
FlagFields == BoundedSeqs({"g", "d", "r"}, MaxFieldLen) \cup {AllFlags, <<"S", "g">>}

PermissionFields ==
    BoundedSeqs({"r", "d", "g"}, MaxFieldLen) \cup {AllPermissions, <<"r", "w", "x">>}

Principals ==
    {Owner, Alice, Gid1234, Gid65535, Gid65536, Gid70000, <<"0">>, <<"-", "5">>, <<>>}

CommentLine == <<"#", " ", "f", "i", "l", "e", ":", " ", "/", "x">>
OwnerLine == Join4(<<"A">>, <<>>, Owner, <<"r", "w", "x">>)
GroupLine == Join4(<<"D">>, <<"g">>, Gid1234, <<"r">>)
BigGroupLine == Join4(<<"A">>, <<"g">>, Gid70000, <<"w">>)
BadFlagLine == Join4(<<"A">>, <<"g", "X", "d">>, Gid1234, <<"r", "?", "w">>)
BadTypeLine == Join4(<<"X">>, <<"g">>, Gid1234, <<"r">>)
ThreeFieldLine == <<"A">> \o <<":">> \o <<"g">> \o <<":">> \o Gid1234
FiveFieldLine == Join4(<<"A">>, <<"g">>, Gid1234, <<"r">>) \o <<":", "w">>

\* lines that are no entry of the listing format
OddLines ==
    {<<>>, CommentLine, <<"#">>, ThreeFieldLine, FiveFieldLine,
     <<"A">>, <<":">>, <<" ">>, <<" ", "#">>}

\* the lines an input of one line is drawn from
SingleLines ==
    {Join4(t, <<"g">>, Gid1234, <<"r">>) : t \in TypeFields}
    \cup {Join4(<<"A">>, f, Gid1234, <<"r">>) : f \in FlagFields}
    \cup {Join4(<<"A">>, f, p, <<"r">>) : f \in {<<>>, <<"g">>, <<"d", "g">>}, p \in Principals}
    \cup {Join4(<<"A">>, <<>>, Owner, q) : q \in PermissionFields}
    \cup OddLines

\* the lines an input of several lines is drawn from
CoreLines ==
    {<<>>, CommentLine, OwnerLine, GroupLine, BigGroupLine, BadFlagLine,
     BadTypeLine, ThreeFieldLine, FiveFieldLine}

InputLineSeqs ==
    {<<l>> : l \in SingleLines} \cup BoundedSeqs(CoreLines, MaxLines)

\* how the listing ends its lines
Styles == {"lf", "crlf", "unterminated"}

RECURSIVE Render(_, _)
\* the text of the listing
Render(ls, style) ==
    IF ls = <<>> THEN <<>>
    ELSE Head(ls)
         \o (IF style = "crlf" THEN <<"\r", "\n">>
             ELSE IF style = "unterminated" /\ Len(ls) = 1 THEN <<>>
             ELSE <<"\n">>)
         \o Render(Tail(ls), style)

(* ------------------------------- state --------------------------------- *)

VARIABLES
    path_exists,   \* whether the path exists
    pc,            \* "start", "invoke", "loop", "returned", "panicked", "filtered"
    invoked,       \* whether nfs4_getfacl was run
    output_str,    \* the standard output of nfs4_getfacl
    lines,         \* output_str.lines()
    idx,           \* the position of the line loop in lines
    aces,          \* the Vec<Ace> being built, then Acl.aces
    printed,       \* what the decoder printed
    panic,         \* the panic that ended the call, "" when none
    ret,           \* "none", "NotFound", "IoError", "Ok"
    group_aces     \* the result of group_id_aces

vars ==
    <<path_exists, pc, invoked, output_str, lines, idx, aces, printed, panic,
      ret, group_aces>>

Init ==
    /\ path_exists \in BOOLEAN
    /\ pc = "start"
    /\ invoked = FALSE
    /\ output_str = <<>>
    /\ lines = <<>>
    /\ idx = 1
    /\ aces = <<>>
    /\ printed = <<>>
    /\ panic = ""
    /\ ret = "none"
    /\ group_aces = <<>>

PathMissingMutInverted(exists) == exists

\* !path.as_ref().exists()
PathMissing(exists) == ~exists

\* the existence test and its early return
CheckPath ==
    /\ pc = "start"
    /\ IF PathMissing(path_exists)
       THEN pc' = "returned" /\ ret' = "NotFound"
       ELSE pc' = "invoke" /\ ret' = ret
    /\ UNCHANGED <<path_exists, invoked, output_str, lines, idx, aces, printed,
                   panic, group_aces>>

\* Command::output() fails and ? returns its error
InvokeFails ==
    /\ pc = "invoke"
    /\ invoked' = TRUE
    /\ pc' = "returned"
    /\ ret' = "IoError"
    /\ UNCHANGED <<path_exists, output_str, lines, idx, aces, printed, panic,
                   group_aces>>

\* Command::output() succeeds; its stdout is split into lines
Invoke ==
    /\ pc = "invoke"
    /\ \E ls \in InputLineSeqs, style \in Styles :
         /\ output_str' = Render(ls, style)
         /\ lines' = Lines(Render(ls, style))
    /\ invoked' = TRUE
    /\ aces' = <<>>
    /\ idx' = 1
    /\ pc' = "loop"
    /\ UNCHANGED <<path_exists, printed, panic, ret, group_aces>>

\* one iteration of for line in lines
ProcessLine ==
    /\ pc = "loop"
    /\ idx <= Len(lines)
    /\ IF SkipLine(lines[idx])
       THEN /\ idx' = idx + 1
            /\ UNCHANGED <<pc, aces, printed, panic>>
       ELSE LET r == LineBody(lines[idx])
            IN  /\ printed' = printed \o r.printed
                /\ IF r.kind = "panic"
                   THEN /\ pc' = "panicked"
                        /\ panic' = r.why
                        /\ UNCHANGED <<idx, aces>>
                   ELSE /\ aces' = Push(aces, r.ace)
                        /\ idx' = idx + 1
                        /\ UNCHANGED <<pc, panic>>
    /\ UNCHANGED <<path_exists, invoked, output_str, lines, ret, group_aces>>

\* Ok(Acl { aces })
Return ==
    /\ pc = "loop"
    /\ idx > Len(lines)
    /\ pc' = "returned"
    /\ ret' = "Ok"
    /\ UNCHANGED <<path_exists, invoked, output_str, lines, idx, aces, printed,
                   panic, group_aces>>

\* acl.group_id_aces()
GroupIdAces ==
    /\ pc = "returned"
    /\ ret = "Ok"
    /\ group_aces' = SelectSeq(aces, IsGroupIdAce)
    /\ pc' = "filtered"
    /\ UNCHANGED <<path_exists, invoked, output_str, lines, idx, aces, printed,
                   panic, ret>>

Next ==
    \/ CheckPath
    \/ InvokeFails
    \/ Invoke
    \/ ProcessLine
    \/ Return
    \/ GroupIdAces

Spec == Init /\ [][Next]_vars

(* ---------------- vocabulary of the properties below ------------------- *)

\* the letter tables of the listing format
FlagLetterBit ==
    [c \in {"g", "d", "f", "n", "i", "S", "F"} |->
        CASE c = "g" -> GROUP
          [] c = "d" -> DIRECTORY_INHERIT
          [] c = "f" -> FILE_INHERIT
          [] c = "n" -> NO_PROPAGATE_INHERIT
          [] c = "i" -> INHERIT_ONLY
          [] c = "S" -> SUCCESSFUL_ACCESS
          [] c = "F" -> FAILED_ACCESS]

PermissionLetterBit ==
    [c \in {"r", "w", "a", "x", "d", "D", "t", "T", "n", "N", "c", "C", "o", "y"} |->
        CASE c = "r" -> READ_DATA
          [] c = "w" -> WRITE_DATA
          [] c = "a" -> APPEND_DATA
          [] c = "x" -> EXECUTE
          [] c = "d" -> DELETE
          [] c = "D" -> DELETE_CHILD
          [] c = "t" -> READ_ATTRIBUTES
          [] c = "T" -> WRITE_ATTRIBUTES
          [] c = "n" -> READ_NAMED_ATTRIBUTES
          [] c = "N" -> WRITE_NAMED_ATTRIBUTES
          [] c = "c" -> READ_ACL
          [] c = "C" -> WRITE_ACL
          [] c = "o" -> WRITE_OWNER
          [] c = "y" -> SYNCHRONIZE]

TypeLetter ==
    [c \in {"A", "D", "U", "L"} |->
        CASE c = "A" -> "Allow"
          [] c = "D" -> "Deny"
          [] c = "U" -> "Audit"
          [] c = "L" -> "Alarm"]

\* the bits set in a numeric value
BitsOf(n) == {2 ^ k : k \in {j \in 0..15 : (n \div (2 ^ j)) % 2 = 1}}

ColonsIn(line) == {i \in DOMAIN line : line[i] = ":"}

NumFields(line) == Cardinality(ColonsIn(line)) + 1

\* the position of the k-th colon of the line
ColonAt(line, k) ==
    CHOOSE i \in ColonsIn(line) : Cardinality({j \in ColonsIn(line) : j <= i}) = k

\* the k-th colon-separated field of the line, for k <= NumFields(line)
FieldOf(line, k) ==
    SubSeq(line,
           IF k = 1 THEN 1 ELSE ColonAt(line, k - 1) + 1,
           IF k = NumFields(line) THEN Len(line) ELSE ColonAt(line, k) - 1)

BlankOrComment(line) == Len(line) = 0 \/ Head(line) = "#"

IsEntry(line) == ~BlankOrComment(line)

ValidTypeField(f) == Len(f) > 0 /\ f[Len(f)] \in DOMAIN TypeLetter

WellFormed(line) ==
    /\ IsEntry(line)
    /\ NumFields(line) = 4
    /\ ValidTypeField(FieldOf(line, 1))
    /\ Range(FieldOf(line, 2)) \subseteq DOMAIN FlagLetterBit
    /\ Range(FieldOf(line, 4)) \subseteq DOMAIN PermissionLetterBit

\* the entry lines the loop is through with; one Ace was pushed for each
EntriesDone == SelectSeq(SubSeq(lines, 1, idx - 1), IsEntry)

\* the longest prefix of the field made of letters only
LetterPrefix(f, letters) ==
    LET bad == {i \in DOMAIN f : f[i] \notin letters}
    IN  IF bad = {} THEN f
        ELSE SubSeq(f, 1, (CHOOSE i \in bad : \A j \in bad : i <= j) - 1)

IsNonNegativeInteger(s) == Len(s) > 0 /\ Range(s) \subseteq Range(Digits)

(* ----------------------------- properties ----------------------------- *)

HasFourFields(line) == NumFields(line) = 4

\* C1: an entry line that does not split into exactly 4 fields neither aborts
\* the call nor yields an Ace: the call never panics at such a line (stated
\* for the lines whose type-field is valid, where only the number of fields
\* can be at fault), and the Aces pushed are at most the 4-field entry lines
\* gone through.
C1_MalformedLineReported ==
    /\ (pc = "panicked" /\ ValidTypeField(FieldOf(lines[idx], 1))
            => HasFourFields(lines[idx]))
    /\ Len(aces) <= Len(SelectSeq(EntriesDone, HasFourFields))

GroupIdEntry(ace) ==
    IsNonNegativeInteger(ace.ace_principals) /\ GROUP \in BitsOf(ace.ace_flags)

\* C2: group_id_aces returns, in order and unchanged, exactly the entries
\* whose principal is a non-negative integer (of any size) and whose flags
\* contain GROUP.
C2_GroupIdAcesAnyId ==
    pc = "filtered" => group_aces = SelectSeq(aces, GroupIdEntry)

\* C3: an entry line whose type-field is empty or ends in a character other
\* than A, D, U, L never aborts the call (stated for the lines of exactly 4
\* fields, where only the type-field can be at fault).
C3_BadTypeNeverPanics ==
    pc = "panicked" /\ HasFourFields(lines[idx])
        => ValidTypeField(FieldOf(lines[idx], 1))

\* C4: a line whose flags-field or permissions-field holds a character outside
\* its vocabulary is not accepted as an Ace of the returned Acl.
C4_UnknownCharRejected ==
    ret = "Ok" =>
        \A i \in DOMAIN aces :
            /\ Range(FieldOf(EntriesDone[i], 2)) \subseteq DOMAIN FlagLetterBit
            /\ Range(FieldOf(EntriesDone[i], 4)) \subseteq DOMAIN PermissionLetterBit

\* C6: with a missing path the call returns NotFound at once: nfs4_getfacl is
\* never run, no line is read, no Ace is built and no Acl is returned.
C6_NotFoundBeforeInvoke ==
    ~path_exists =>
        /\ ~invoked
        /\ lines = <<>> /\ aces = <<>> /\ group_aces = <<>>
        /\ pc \in {"start", "returned"}
        /\ (pc = "returned" => ret = "NotFound")
        /\ (pc = "start" => ret = "none")

C6_Witness == ~path_exists /\ pc = "returned" /\ ret = "NotFound"

\* the Ace the loop body builds from a line it does not panic at
AceOfLine(line) == LineBody(line).ace

\* C5: while every entry line gone through is well-formed, the Aces are the
\* decodings of those entry lines, one each and in line order, whatever blank
\* and comment lines lie between them; the returned Acl is that sequence.
C5_OrderPreserved ==
    (pc \in {"loop", "returned", "filtered"}
        /\ \A i \in DOMAIN EntriesDone : WellFormed(EntriesDone[i]))
    => /\ Len(aces) = Len(EntriesDone)
       /\ \A i \in DOMAIN aces : aces[i] = AceOfLine(EntriesDone[i])

C5_Witness ==
    /\ ret = "Ok"
    /\ lines = <<OwnerLine, CommentLine, GroupLine>>
    /\ Len(aces) = 2
    /\ aces[1].ace_principals = Owner
    /\ aces[2].ace_principals = Gid1234

\* C7: a well-formed entry line is decoded without a panic, and its Ace has
\* the type of the last letter of the type-field, exactly the flag bits of the
\* letters of the flags-field, the principal-field verbatim and exactly the
\* permission bits of the letters of the permissions-field; A::OWNER@:rwx
\* gives Allow, no flags, OWNER@ and READ_DATA, WRITE_DATA, EXECUTE.
C7_DecodeTables ==
    /\ (pc = "panicked" => ~WellFormed(lines[idx]))
    /\ \A i \in DOMAIN aces :
         LET line == EntriesDone[i]
             type_field == FieldOf(line, 1)
         IN  /\ WellFormed(line) =>
                  /\ aces[i].ace_type = TypeLetter[type_field[Len(type_field)]]
                  /\ BitsOf(aces[i].ace_flags)
                       = {FlagLetterBit[c] : c \in Range(FieldOf(line, 2))}
                  /\ aces[i].ace_principals = FieldOf(line, 3)
                  /\ BitsOf(aces[i].ace_permissions)
                       = {PermissionLetterBit[c] : c \in Range(FieldOf(line, 4))}
             /\ line = OwnerLine =>
                  aces[i] = [ace_type |-> "Allow", ace_flags |-> 0,
                             ace_principals |-> Owner,
                             ace_permissions |-> READ_DATA + WRITE_DATA + EXECUTE]

C7_Witness ==
    /\ ret = "Ok"
    /\ lines = <<Join4(<<"A">>, AllFlags, Gid1234, <<"r">>)>>
    /\ Len(aces) = 1
    /\ aces[1].ace_flags = 127

\* C8: a flags-field or permissions-field of valid letters decodes to the value
\* every field of the same letters decodes to, in whatever order and however
\* often the letters are written.
C8_OrderAndDuplicates ==
    \A i \in DOMAIN aces :
        LET f == FieldOf(EntriesDone[i], 2)
            p == FieldOf(EntriesDone[i], 4)
        IN  /\ Range(f) \subseteq DOMAIN FlagLetterBit =>
                \A g \in FlagFields :
                    Range(g) = Range(f) => FlagsLoop(g, 1, 0).value = aces[i].ace_flags
            /\ Range(p) \subseteq DOMAIN PermissionLetterBit =>
                \A q \in PermissionFields :
                    Range(q) = Range(p)
                        => PermissionsLoop(q, 1, 0).value = aces[i].ace_permissions

C8_Witness ==
    /\ ret = "Ok"
    /\ Len(aces) = 1
    /\ FieldOf(lines[1], 2) = <<"d", "g">>
    /\ aces[1].ace_flags = GROUP + DIRECTORY_INHERIT

\* the line loop as a function of the lines
RECURSIVE DecodeFrom(_, _, _, _)
DecodeFrom(ls, i, acc, out) ==
    IF i > Len(ls) THEN [aces |-> acc, printed |-> out, panic |-> ""]
    ELSE IF SkipLine(ls[i]) THEN DecodeFrom(ls, i + 1, acc, out)
    ELSE LET r == LineBody(ls[i])
         IN  IF r.kind = "panic"
             THEN [aces |-> acc, printed |-> out \o r.printed, panic |-> r.why]
             ELSE DecodeFrom(ls, i + 1, Push(acc, r.ace), out \o r.printed)

\* C9: blank and comment lines add no Ace and no error: the call ends as it
\* ends on the input with those lines taken out, and an input of nothing but
\* such lines gives an Acl of zero entries.
C9_BlankAndCommentSkipped ==
    (invoked /\ pc \in {"returned", "filtered", "panicked"} /\ ret # "IoError")
    => LET r == DecodeFrom(SelectSeq(lines, IsEntry), 1, <<>>, <<>>)
       IN  /\ aces = r.aces
           /\ printed = r.printed
           /\ panic = r.panic
           /\ (\A i \in DOMAIN lines : BlankOrComment(lines[i]))
                => ret = "Ok" /\ aces = <<>>

C9_Witness ==
    /\ ret = "Ok"
    /\ lines = <<CommentLine, <<>>, GroupLine>>
    /\ Len(aces) = 1

\* C10: the bits held for a flags-field or a permissions-field are those of
\* the letters before its first unrecognized character, each field on its own.
C10_StopAtFirstUnknown ==
    \A i \in DOMAIN aces :
        LET f == FieldOf(EntriesDone[i], 2)
            p == FieldOf(EntriesDone[i], 4)
        IN  /\ BitsOf(aces[i].ace_flags)
                 = {FlagLetterBit[c] : c \in Range(LetterPrefix(f, DOMAIN FlagLetterBit))}
            /\ BitsOf(aces[i].ace_permissions)
                 = {PermissionLetterBit[c] :
                      c \in Range(LetterPrefix(p, DOMAIN PermissionLetterBit))}

C10_Witness ==
    /\ ret = "Ok"
    /\ lines = <<BadFlagLine>>
    /\ Len(aces) = 1
    /\ aces[1].ace_flags = GROUP
    /\ aces[1].ace_permissions = READ_DATA

=============================================================================
